---- MODULE Spec2Model ----
(***************************************************************************)
(* Model of src/audio_segment.py: the morphological gap filler fill_gap,   *)
(* VoiceActivityDetector.detect and VoiceActivityDetector.is_test_noise.   *)
(*                                                                         *)
(* Arrays are sequences; the code's 0-based index i is position i+1.       *)
(* A window's activity ratio db_agg[i] is kept as the number of active     *)
(* frames of the window; the ratio is that number over window_length, and  *)
(* every comparison of a ratio with a threshold is cross-multiplied.       *)
(***************************************************************************)
EXTENDS Integers, Sequences, FiniteSets, TLC

VARIABLES
    pc,             \* position in the operation under way
    mask, kk,       \* fill_gap called on its own: its arguments a and k
    once, twice,    \* fill_gap(a, k) and fill_gap(fill_gap(a, k), k)
    audio,          \* AudioModel: db, sample_rate, hop_length
    args,           \* detect's keyword arguments
    db_bin, window_length, db_agg,
    gap_k,          \* the k detect hands to fill_gap
    db_agg_bin, interval_mat, out_df,
    result          \* the DataFrame detect returns

vars == <<pc, mask, kk, once, twice, audio, args, db_bin, window_length,
          db_agg, gap_k, db_agg_bin, interval_mat, out_df, result>>

fillVars == <<mask, kk, once, twice>>
inputVars == <<audio, args>>

\* ------------------------------------------------------------------ bounds
MaxMaskLen == 7
MaxK == 3
MaxPad == 2

\* ----------------------------------------------------------- numpy helpers
RECURSIVE SumSeq(_)
SumSeq(s) == IF s = <<>> THEN 0 ELSE Head(s) + SumSeq(Tail(s))

B2I(b) == IF b THEN 1 ELSE 0

AsInt(s) == [i \in 1..Len(s) |-> B2I(s[i])]

Ones(n) == [i \in 1..n |-> 1]

\* np.convolve(a, v), mode "full": c[i] = sum_j a[j] * v[i - j]
Convolve(a, v) ==
    [i \in 1..(Len(a) + Len(v) - 1) |->
        SumSeq([j \in 1..Len(a) |->
                  IF (i - j + 1) \in 1..Len(v) THEN a[j] * v[i - j + 1] ELSE 0])]

\* s[start:stop] with start >= 0 and stop < 0 (stop counts from the end)
PySlice(s, start, stop) ==
    LET hi == Len(s) + stop
    IN  IF hi <= start THEN <<>>
        ELSE [i \in 1..(hi - start) |-> s[start + i]]

Ok(v) == [err |-> FALSE, val |-> v]
Raise == [err |-> TRUE, val |-> <<>>]

\* ------------------------------------------------------- variants of fill_gap
\* a structuring element of k + 1 ones instead of 2k + 1
fill_gap_narrow(a, k) ==
    IF k = 0 THEN Ok(a)
    ELSE IF 2 * k + 1 < 0 THEN Raise
    ELSE IF Len(a) = 0 THEN Raise
    ELSE LET v == Ones(k + 1)
             c1 == Convolve(AsInt(a), v)
             dil == [i \in 1..Len(c1) |-> c1[i] > 0]
             c2 == Convolve(AsInt(dil), v)
             ero == [i \in 1..Len(c2) |-> c2[i] = Len(v)]
         IN  Ok(PySlice(ero, k, -k))

\* the dilation alone, cropped to the input's length
fill_gap_dilation_only(a, k) ==
    IF k = 0 THEN Ok(a)
    ELSE IF 2 * k + 1 < 0 THEN Raise
    ELSE IF Len(a) = 0 THEN Raise
    ELSE LET v == Ones(2 * k + 1)
             c1 == Convolve(AsInt(a), v)
             dil == [i \in 1..Len(c1) |-> c1[i] > 0]
         IN  Ok(PySlice(dil, k, -k))

\* the erosion before the dilation
fill_gap_erosion_first(a, k) ==
    IF k = 0 THEN Ok(a)
    ELSE IF 2 * k + 1 < 0 THEN Raise
    ELSE IF Len(a) = 0 THEN Raise
    ELSE LET v == Ones(2 * k + 1)
             c1 == Convolve(AsInt(a), v)
             ero == [i \in 1..Len(c1) |-> c1[i] = Len(v)]
             c2 == Convolve(AsInt(ero), v)
             dil == [i \in 1..Len(c2) |-> c2[i] > 0]
         IN  Ok(PySlice(dil, 2 * k, -(2 * k)))

\* the early return taken for every k <= 0
fill_gap_nonpositive_identity(a, k) ==
    IF k <= 0 THEN Ok(a)
    ELSE IF Len(a) = 0 THEN Raise
    ELSE LET v == Ones(2 * k + 1)
             c1 == Convolve(AsInt(a), v)
             dil == [i \in 1..Len(c1) |-> c1[i] > 0]
             c2 == Convolve(AsInt(dil), v)
             ero == [i \in 1..Len(c2) |-> c2[i] = Len(v)]
         IN  Ok(PySlice(ero, 2 * k, -(2 * k)))

\* ---------------------------------------------------------------- fill_gap
fill_gap(a, k) ==
    IF k = 0 THEN Ok(a)
    ELSE IF 2 * k + 1 < 0 THEN Raise            \* np.ones of a negative size
    ELSE IF Len(a) = 0 THEN Raise               \* np.convolve of an empty array
    ELSE LET v == Ones(2 * k + 1)
             c1 == Convolve(AsInt(a), v)
             dil == [i \in 1..Len(c1) |-> c1[i] > 0]
             c2 == Convolve(AsInt(dil), v)
             ero == [i \in 1..Len(c2) |-> c2[i] = Len(v)]
         IN  Ok(PySlice(ero, 2 * k, -(2 * k)))

\* ------------------------------------------------------------------ inputs
RECURSIVE SeqsUpTo(_, _)
SeqsUpTo(S, n) ==
    IF n = 0 THEN {<<>>}
    ELSE LET prev == SeqsUpTo(S, n - 1)
         IN  prev \cup {Append(s, x) : s \in {t \in prev : Len(t) = n - 1}, x \in S}

Rep(x, n) == [i \in 1..n |-> x]

\* [F]*l + [T]*3 + [F]*g + [T]*3 + [F]*r
GapMask(l, g, r) ==
    Rep(FALSE, l) \o Rep(TRUE, 3) \o Rep(FALSE, g) \o Rep(TRUE, 3) \o Rep(FALSE, r)

GapMasks == {GapMask(l, g, r) : l \in 0..MaxPad, g \in 1..(2 * MaxK + 2), r \in 0..MaxPad}

Masks == SeqsUpTo(BOOLEAN, MaxMaskLen) \cup GapMasks

\* ------------------------------------------------------------ arithmetic
Abs(n) == IF n < 0 THEN -n ELSE n

\* int(n / d): the quotient truncated toward zero (d # 0)
IntTrunc(n, d) ==
    IF (n >= 0) = (d > 0) THEN Abs(n) \div Abs(d) ELSE -(Abs(n) \div Abs(d))

\* Python's n % d: the remainder takes the sign of d (d # 0)
PyMod(n, d) == IF d > 0 THEN n % d ELSE -((-n) % (-d))

\* ------------------------------------------------------------ is_test_noise
MinSamples == 4
SampleRatioNum == 3
SampleRatioDen == 4
DbRatioNum == 19
DbRatioDen == 20

\* db_agg: a slice of the aggregated ratio trace (active frames per window)
is_test_noise(db_agg_slice) ==
    IF Len(db_agg_slice) < MinSamples THEN FALSE
    ELSE LET sample_count == Len(db_agg_slice)
             high_count == SumSeq([i \in 1..sample_count |->
                 B2I(db_agg_slice[i] * DbRatioDen >= DbRatioNum * window_length)])
         IN  high_count * SampleRatioDen >= SampleRatioNum * sample_count

\* ------------------------------------------------------------ detect, steps
\* lines 61-63; sample_rate / hop_length is exact for the inputs of Init
WindowLength(au, ar) == IntTrunc(au.sample_rate * ar.window_sec, au.hop_length)

\* line 60
Threshold(db, db_thresh) == [i \in 1..Len(db) |-> db[i] >= db_thresh]

\* lines 64-69: pad to a multiple of window_length, reshape, mean per row
Aggregate(bin, wl) ==
    IF wl = 0 THEN Raise                         \* len(db) % 0
    ELSE LET pad_length == PyMod(wl - PyMod(Len(bin), wl), wl)
         IN  IF pad_length < 0 THEN Raise        \* np.pad of a negative width
             ELSE LET padded == bin \o Rep(FALSE, pad_length)
                  IN  IF PyMod(Len(padded), wl) # 0 THEN Raise     \* assert
                      ELSE IF wl < 0 THEN Raise  \* reshape(-1, negative)
                      ELSE Ok([r \in 1..(Len(padded) \div wl) |->
                               SumSeq(AsInt(SubSeq(padded, (r - 1) * wl + 1, r * wl)))])

\* line 71: db_agg >= agg_thresh
AggThreshold(agg, wl, agg_thresh) ==
    [i \in 1..Len(agg) |-> agg[i] * agg_thresh.den >= agg_thresh.num * wl]

\* round(n / d) for d > 0: to the nearest integer, a tie to the even one
PyRound(n, d) ==
    LET q == n \div d
        r == n % d
    IN  IF 2 * r < d THEN q
        ELSE IF 2 * r > d THEN q + 1
        ELSE IF q % 2 = 0 THEN q ELSE q + 1

\* variants of GapK: rounded to nearest; the division by 2 left out
GapK_rounded(ar) == PyRound(ar.silence_sec, 2 * ar.window_sec)
GapK_not_halved(ar) == IntTrunc(ar.silence_sec, ar.window_sec)

\* line 72: int(silence_sec / window_sec / 2)
GapK(ar) == IntTrunc(ar.silence_sec, 2 * ar.window_sec)

RECURSIVE FlatNonZeroFrom(_, _)
FlatNonZeroFrom(d, i) ==
    IF i > Len(d) THEN <<>>
    ELSE (IF d[i] # 0 THEN <<i - 1>> ELSE <<>>) \o FlatNonZeroFrom(d, i + 1)

\* variant of FlatNonZero: the indices in descending order
RECURSIVE Reverse(_)
Reverse(s) == IF s = <<>> THEN <<>> ELSE Append(Reverse(Tail(s)), Head(s))
FlatNonZero_descending(d) == Reverse(FlatNonZeroFrom(d, 1))

\* np.flatnonzero: the 0-based indices of the non-zero entries, ascending
FlatNonZero(d) == FlatNonZeroFrom(d, 1)

\* np.diff
Diff(s) == [i \in 1..(Len(s) - 1) |-> s[i + 1] - s[i]]

\* variant of ExtractIntervals: the indices left relative to the sentinel
ExtractIntervals_sentinel_relative(bin) ==
    LET db_agg_bin_ws == <<FALSE>> \o bin \o <<FALSE>>
        edges == FlatNonZeroFrom(Diff(AsInt(db_agg_bin_ws)), 1)
    IN  IF Len(edges) % 2 # 0 THEN Raise
        ELSE Ok([r \in 1..(Len(edges) \div 2) |->
                 [start_frame |-> edges[2 * r - 1] + 1, end_frame |-> edges[2 * r] + 1]])

\* lines 73-78: sentinels, first difference, non-zero indices, reshape((-1, 2))
ExtractIntervals(bin) ==
    LET db_agg_bin_ws == <<FALSE>> \o bin \o <<FALSE>>
        edges == FlatNonZero(Diff(AsInt(db_agg_bin_ws)))
    IN  IF Len(edges) % 2 # 0 THEN Raise
        ELSE Ok([r \in 1..(Len(edges) \div 2) |->
                 [start_frame |-> edges[2 * r - 1], end_frame |-> edges[2 * r]]])

\* variant of KeepRow: classifies the gap-filled mask instead of the raw ratios
KeepRow_filled_mask(row) ==
    ~is_test_noise([i \in 1..(row.end_frame - row.start_frame) |->
                      IF db_agg_bin[row.start_frame + i] THEN window_length ELSE 0])

\* lines 81-85: the rows whose slice db_agg[start_frame:end_frame] is no test noise
KeepRow(row) == ~is_test_noise(SubSeq(db_agg, row.start_frame + 1, row.end_frame))

\* variant of ToSeconds: the buffer added on both sides
ToSeconds_buffer_added(row, ar) ==
    [start_sec |-> row.start_frame * ar.window_sec + ar.buffer_sec,
     end_sec |-> row.end_frame * ar.window_sec + ar.buffer_sec]

\* lines 87-89
ToSeconds(row, ar) ==
    [start_sec |-> row.start_frame * ar.window_sec - ar.buffer_sec,
     end_sec |-> row.end_frame * ar.window_sec + ar.buffer_sec]

\* ------------------------------------------------------------ detect, inputs
MaxFrames == 7
MaxSilenceSec == 4
MaxRegionWin == 5

DefaultDbThresh == -25
DefaultWindowSec == 5
DefaultSilenceSec == 30
DefaultBufferSec == 1

Levels == {DefaultDbThresh - 1, DefaultDbThresh}
QuietLevels == {DefaultDbThresh - 1}
LoudLevels == {DefaultDbThresh, DefaultDbThresh + 1}

DefaultAggThresh == [num |-> 1, den |-> 50]

\* (sample_rate, hop_length) with hop_length dividing sample_rate
Rates == {[sample_rate |-> 2, hop_length |-> 2], [sample_rate |-> 2, hop_length |-> 1]}

Audio(db, rate) ==
    [db |-> db, sample_rate |-> rate.sample_rate, hop_length |-> rate.hop_length]

Fps(rate) == rate.sample_rate \div rate.hop_length

\* any short trace, any small parameters
AnyInputs ==
    /\ \E db \in SeqsUpTo(Levels, MaxFrames), rate \in Rates : audio = Audio(db, rate)
    /\ args \in [db_thresh : {DefaultDbThresh},
                 agg_thresh : {DefaultAggThresh},
                 window_sec : {-1, 0, 1, 2},
                 silence_sec : (-2)..MaxSilenceSec,
                 buffer_sec : {0, DefaultBufferSec}]

\* 40 s of silence, 10 s of activity, 40 s of silence
SingleRegionInputs ==
    /\ \E rate \in Rates, q \in QuietLevels, l \in LoudLevels :
          audio = Audio(Rep(q, 40 * Fps(rate)) \o Rep(l, 10 * Fps(rate))
                          \o Rep(q, 40 * Fps(rate)), rate)
    /\ args \in [db_thresh : {DefaultDbThresh},
                 agg_thresh : {DefaultAggThresh},
                 window_sec : {DefaultWindowSec},
                 silence_sec : {0, 10, DefaultSilenceSec, 60},
                 buffer_sec : {0, DefaultBufferSec, 2}]

\* two active regions separated by 15 s or by 60 s of silence
TwoRegionInputs ==
    /\ \E rate \in Rates, q \in QuietLevels, l \in {DefaultDbThresh},
          lead \in {0, 3}, trail \in {0, 5}, gap \in {15, 60},
          a1 \in {2} \cup {5 * i : i \in 1..MaxRegionWin},
          a2 \in {2} \cup {5 * i : i \in 1..MaxRegionWin} :
          audio = Audio(Rep(q, lead * Fps(rate)) \o Rep(l, a1 * Fps(rate))
                          \o Rep(q, gap * Fps(rate)) \o Rep(l, a2 * Fps(rate))
                          \o Rep(q, trail * Fps(rate)), rate)
    /\ args \in [db_thresh : {DefaultDbThresh},
                 agg_thresh : {DefaultAggThresh, [num |-> 3, den |-> 5]},
                 window_sec : {DefaultWindowSec},
                 silence_sec : {DefaultSilenceSec},
                 buffer_sec : {0, DefaultBufferSec}]

\* ------------------------------------------------------------ state machine
NoFill == mask = <<>> /\ kk = 0 /\ once = Raise /\ twice = Raise

NoDetect ==
    /\ audio = Audio(<<>>, [sample_rate |-> 1, hop_length |-> 1])
    /\ args = [db_thresh |-> DefaultDbThresh, agg_thresh |-> DefaultAggThresh,
               window_sec |-> DefaultWindowSec, silence_sec |-> DefaultSilenceSec,
               buffer_sec |-> DefaultBufferSec]

NoLocals ==
    /\ db_bin = <<>>
    /\ window_length = 0
    /\ db_agg = <<>>
    /\ gap_k = 0
    /\ db_agg_bin = <<>>
    /\ interval_mat = <<>>
    /\ out_df = <<>>
    /\ result = <<>>

InitFill ==
    /\ pc = "fg_start"
    /\ mask \in Masks
    /\ kk \in (-2)..MaxK
    /\ once = Raise
    /\ twice = Raise
    /\ NoDetect
    /\ NoLocals

InitDetect ==
    /\ pc = "start"
    /\ AnyInputs \/ SingleRegionInputs \/ TwoRegionInputs
    /\ NoFill
    /\ NoLocals

Init == InitFill \/ InitDetect

detectRest == <<audio, args, db_bin, window_length, db_agg, gap_k, db_agg_bin,
                interval_mat, out_df, result>>

FillOnce ==
    /\ pc = "fg_start"
    /\ once' = fill_gap(mask, kk)
    /\ pc' = IF once'.err THEN "fg_error" ELSE "fg_once"
    /\ UNCHANGED <<mask, kk, twice>>
    /\ UNCHANGED detectRest

FillTwice ==
    /\ pc = "fg_once"
    /\ twice' = fill_gap(once.val, kk)
    /\ pc' = IF twice'.err THEN "fg_error" ELSE "fg_twice"
    /\ UNCHANGED <<mask, kk, once>>
    /\ UNCHANGED detectRest

\* lines 60-63
Binarize ==
    /\ pc = "start"
    /\ db_bin' = Threshold(audio.db, args.db_thresh)
    /\ window_length' = WindowLength(audio, args)
    /\ pc' = "binarized"
    /\ UNCHANGED <<fillVars, inputVars, db_agg, gap_k, db_agg_bin, interval_mat,
                   out_df, result>>

\* lines 64-69
DoAggregate ==
    /\ pc = "binarized"
    /\ LET r == Aggregate(db_bin, window_length)
       IN  /\ db_agg' = r.val
           /\ pc' = IF r.err THEN "error" ELSE "aggregated"
    /\ UNCHANGED <<fillVars, inputVars, db_bin, window_length, gap_k, db_agg_bin,
                   interval_mat, out_df, result>>

\* lines 71-72
ThreshFill ==
    /\ pc = "aggregated"
    /\ gap_k' = GapK(args)
    /\ LET r == fill_gap(AggThreshold(db_agg, window_length, args.agg_thresh), gap_k')
       IN  /\ db_agg_bin' = r.val
           /\ pc' = IF r.err THEN "error" ELSE "filled"
    /\ UNCHANGED <<fillVars, inputVars, db_bin, window_length, db_agg,
                   interval_mat, out_df, result>>

\* lines 73-78
Extract ==
    /\ pc = "filled"
    /\ LET r == ExtractIntervals(db_agg_bin)
       IN  /\ interval_mat' = r.val
           /\ pc' = IF r.err THEN "error" ELSE "extracted"
    /\ UNCHANGED <<fillVars, inputVars, db_bin, window_length, db_agg, gap_k,
                   db_agg_bin, out_df, result>>

\* lines 80-85.  On a frame without rows DataFrame.apply(axis=1) gives back a
\* copy of the two-column frame, and assigning a frame of two columns to the
\* single column "is_test_noise" raises ValueError.
Classify ==
    /\ pc = "extracted"
    /\ IF interval_mat = <<>>
       THEN out_df' = <<>> /\ pc' = "error"
       ELSE out_df' = SelectSeq(interval_mat, KeepRow) /\ pc' = "filtered"
    /\ UNCHANGED <<fillVars, inputVars, db_bin, window_length, db_agg, gap_k,
                   db_agg_bin, interval_mat, result>>

\* lines 87-91
Convert ==
    /\ pc = "filtered"
    /\ result' = [i \in 1..Len(out_df) |-> ToSeconds(out_df[i], args)]
    /\ pc' = "done"
    /\ UNCHANGED <<fillVars, inputVars, db_bin, window_length, db_agg, gap_k,
                   db_agg_bin, interval_mat, out_df>>

Next ==
    \/ FillOnce
    \/ FillTwice
    \/ Binarize
    \/ DoAggregate
    \/ ThreshFill
    \/ Extract
    \/ Classify
    \/ Convert

Spec == Init /\ [][Next]_vars

\* ================================================================== claims
\* Positions of detect at which a local has been assigned.
AfterFill == {"filled", "extracted", "filtered", "done"}
AfterExtract == {"extracted", "filtered", "done"}
AfterClassify == {"filtered", "done"}
InDetect == {"start", "binarized", "aggregated", "error"} \cup AfterFill
FillReturned == {"fg_once", "fg_twice"}

\* frames per second of the loudness trace
FramesPerSec == audio.sample_rate \div audio.hop_length

\* frame i (0-based) of the trace is at or above db_thresh
Loud(i) == audio.db[i + 1] >= args.db_thresh

\* the maximal runs [s, e) of loud frames, as the sets of their starts and ends
RunStarts == {i \in 0..(Len(audio.db) - 1) : Loud(i) /\ (i = 0 \/ ~Loud(i - 1))}
RunEnds == {i \in 1..Len(audio.db) : Loud(i - 1) /\ (i = Len(audio.db) \/ ~Loud(i))}

Min(S) == CHOOSE x \in S : \A y \in S : x <= y
Max(S) == CHOOSE x \in S : \A y \in S : x >= y

CeilDiv(n, d) == (n + d - 1) \div d

\* The test-tone rule as the specification words it, on windows [s, e) of db_agg:
\* at least 4 windows, of which at least 75% have a ratio of at least 0.95.
ToneBySpec(s, e) ==
    /\ e - s >= 4
    /\ 4 * Cardinality({i \in (s + 1)..e : 20 * db_agg[i] >= 19 * window_length})
         >= 3 * (e - s)

Row(s, e) == [start_frame |-> s, end_frame |-> e]
Secs(s, e) == [start_sec |-> s, end_sec |-> e]

RECURSIVE Kept(_)
Kept(rows) ==
    IF rows = <<>> THEN <<>>
    ELSE (IF ToneBySpec(Head(rows).start_frame, Head(rows).end_frame)
          THEN <<>> ELSE <<Head(rows)>>) \o Kept(Tail(rows))

InSeconds(rows) ==
    [i \in 1..Len(rows) |->
        Secs(rows[i].start_frame * args.window_sec - args.buffer_sec,
             rows[i].end_frame * args.window_sec + args.buffer_sec)]

\* ---- C1
C1_Scenario ==
    /\ pc \in InDetect
    /\ args.window_sec = 5
    /\ args.agg_thresh.num > 0 /\ args.agg_thresh.num <= args.agg_thresh.den
    /\ Len(audio.db) = 90 * FramesPerSec
    /\ \A i \in 0..(Len(audio.db) - 1) :
          Loud(i) <=> (40 * FramesPerSec <= i /\ i < 50 * FramesPerSec)

\* C1: for 40 s below db_thresh, 10 s at or above it and 40 s below it, with
\* window_sec = 5, detect fails nowhere, extracts the single candidate of windows
\* [8, 10) and returns exactly the interval (40 - buffer_sec, 50 + buffer_sec).
C1_SingleRegion ==
    C1_Scenario =>
        /\ pc # "error"
        /\ pc \in AfterExtract => interval_mat = <<Row(8, 10)>>
        /\ pc = "done" =>
              result = <<Secs(40 - args.buffer_sec, 50 + args.buffer_sec)>>

C1_Witness ==
    /\ C1_Scenario
    /\ pc = "done"
    /\ args.buffer_sec = 1
    /\ args.silence_sec = 30
    /\ FramesPerSec = 2
    /\ result = <<Secs(39, 51)>>

\* ---- C2
\* exactly two loud regions, gap seconds apart, with the default silence_sec and
\* window_sec
C2_Scenario(gap) ==
    /\ pc \in InDetect
    /\ args.silence_sec = 30
    /\ args.window_sec = 5
    /\ Cardinality(RunStarts) = 2
    /\ Max(RunStarts) - Min(RunEnds) = gap * FramesPerSec

\* every window a loud region touches reaches agg_thresh
C2_RegionsReachThreshold ==
    \A i \in 0..(Len(audio.db) - 1) :
        Loud(i) => db_agg[(i \div window_length) + 1] * args.agg_thresh.den
                     >= args.agg_thresh.num * window_length

\* the windows covering the two regions
C2_First == Row(Min(RunStarts) \div window_length, CeilDiv(Min(RunEnds), window_length))
C2_Second == Row(Max(RunStarts) \div window_length, CeilDiv(Max(RunEnds), window_length))
C2_Merged == Row(C2_First.start_frame, C2_Second.end_frame)

\* C2, as stated (agg_thresh at its default): two regions 15 s apart come back
\* as one interval covering both, two regions 60 s apart as two intervals.
C2_Original ==
    args.agg_thresh = DefaultAggThresh =>
    /\ (C2_Scenario(15) /\ pc = "done") =>
          /\ Len(result) = 1
          /\ result[1].start_sec + args.buffer_sec
                <= (Min(RunStarts) \div FramesPerSec)
          /\ result[1].end_sec - args.buffer_sec
                >= CeilDiv(Max(RunEnds), FramesPerSec)
    /\ (C2_Scenario(60) /\ pc = "done") => Len(result) = 2
    /\ (C2_Scenario(15) \/ C2_Scenario(60)) => pc # "error"

\* C2, amended: when every window the regions touch reaches agg_thresh, the
\* candidates are the one merged interval (15 s apart) or the two regions'
\* intervals (60 s apart), and detect returns those of them that the test-tone
\* rule does not reject.
C2_BridgedThenFiltered ==
    /\ (C2_Scenario(15) /\ pc \in AfterExtract /\ C2_RegionsReachThreshold) =>
          /\ interval_mat = <<C2_Merged>>
          /\ pc = "done" => result = InSeconds(Kept(<<C2_Merged>>))
    /\ (C2_Scenario(60) /\ pc \in AfterExtract /\ C2_RegionsReachThreshold) =>
          /\ interval_mat = <<C2_First, C2_Second>>
          /\ pc = "done" => result = InSeconds(Kept(<<C2_First, C2_Second>>))
    /\ ((C2_Scenario(15) \/ C2_Scenario(60)) /\ pc \notin {"start", "binarized"}
          /\ C2_RegionsReachThreshold) => pc # "error"

C2_Witness ==
    /\ pc = "done"
    /\ C2_Scenario(15)
    /\ C2_RegionsReachThreshold
    /\ Len(result) = 1
    /\ result[1].end_sec - result[1].start_sec >= 15 + 2 * args.buffer_sec + 10

\* ---- C3
\* C3: a candidate of interval_mat is kept exactly when the test-tone rule, read
\* on the raw ratios db_agg[s:e], does not hold of it; nothing else is kept.
C3_KeptIffNotTone ==
    pc \in AfterClassify =>
        /\ \A r \in 1..Len(interval_mat) :
              (\E j \in 1..Len(out_df) : out_df[j] = interval_mat[r])
                 <=> ~ToneBySpec(interval_mat[r].start_frame, interval_mat[r].end_frame)
        /\ \A j \in 1..Len(out_df) : \E r \in 1..Len(interval_mat) :
              out_df[j] = interval_mat[r]
        /\ pc = "done" => result = InSeconds(out_df)

\* a kept candidate of 4 or more windows that only counts as speech because a
\* bridged window with a low raw ratio is in the denominator
C3_Witness ==
    /\ pc = "filtered"
    /\ \E j \in 1..Len(out_df) :
          LET s == out_df[j].start_frame
              e == out_df[j].end_frame
              high == Cardinality({i \in (s + 1)..e :
                                     20 * db_agg[i] >= 19 * window_length})
              raised == Cardinality({i \in (s + 1)..e :
                          db_agg[i] * args.agg_thresh.den
                             >= args.agg_thresh.num * window_length})
          IN  e - s >= 4 /\ raised < e - s /\ 4 * high >= 3 * raised

\* ---- C4
\* C4: for k >= 1 and the mask [F]*l + [T]*3 + [F]*g + [T]*3 + [F]*r, fill_gap
\* makes every gap position true when g <= 2k and leaves every gap position
\* false when g > 2k.
C4_GapBridging ==
    \A l \in 0..MaxPad, g \in 1..(2 * MaxK + 2), r \in 0..MaxPad :
        (pc \in FillReturned /\ kk >= 1 /\ mask = GapMask(l, g, r)) =>
            /\ Len(once.val) = Len(mask)
            /\ \A i \in (l + 4)..(l + 3 + g) : once.val[i] <=> (g <= 2 * kk)

C4_Witness ==
    /\ pc = "fg_once"
    /\ kk = 2
    /\ mask = GapMask(1, 4, 1)
    /\ once.val = <<FALSE>> \o Rep(TRUE, 10) \o <<FALSE>>

\* ---- C5
\* C5: setting true exactly the positions of each [start_frame, end_frame) of
\* interval_mat in an all-false mask of the same length gives back db_agg_bin.
C5_RoundTrip ==
    pc \in AfterExtract =>
        LET rebuilt == [i \in 1..Len(db_agg_bin) |->
                          \E r \in 1..Len(interval_mat) :
                              /\ interval_mat[r].start_frame <= i - 1
                              /\ i - 1 < interval_mat[r].end_frame]
        IN  /\ rebuilt = db_agg_bin
            /\ \A r \in 1..Len(interval_mat) :
                  /\ 0 <= interval_mat[r].start_frame
                  /\ interval_mat[r].end_frame <= Len(db_agg_bin)

\* a mask with a run at each end and another run between them
C5_Witness ==
    /\ pc = "extracted"
    /\ Len(interval_mat) >= 3
    /\ db_agg_bin[1]
    /\ db_agg_bin[Len(db_agg_bin)]

\* ---- C6
Ordered(rows) ==
    /\ \A r \in 1..Len(rows) : rows[r].start_frame < rows[r].end_frame
    /\ \A r \in 1..(Len(rows) - 1) :
          /\ rows[r].start_frame < rows[r + 1].start_frame
          /\ rows[r].end_frame <= rows[r + 1].start_frame

\* C6: the extracted intervals are sorted by start_frame, pairwise non-overlapping
\* and non-empty, and so are the ones that survive the test-tone filter.
C6_SortedDisjoint ==
    /\ pc \in AfterExtract => Ordered(interval_mat)
    /\ pc \in AfterClassify => Ordered(out_df)

C6_Witness ==
    /\ pc = "filtered"
    /\ Len(interval_mat) >= 2
    /\ Len(out_df) >= 1
    /\ Len(out_df) < Len(interval_mat)

\* ---- C7
\* C7: for a non-empty mask and k >= 0 fill_gap returns, its result has the
\* mask's length, and filling the result again changes nothing.
C7_Idempotent ==
    /\ (pc \in {"fg_once", "fg_twice", "fg_error"} /\ mask # <<>> /\ kk >= 0) =>
          pc # "fg_error"
    /\ (pc \in FillReturned /\ mask # <<>> /\ kk >= 0) => Len(once.val) = Len(mask)
    /\ (pc = "fg_twice" /\ mask # <<>> /\ kk >= 0) => twice.val = once.val

\* a mask that fill_gap changes, filled twice
C7_Witness ==
    /\ pc = "fg_twice"
    /\ kk >= 1
    /\ once.val # mask
    /\ twice.val = once.val

\* ---- C8
\* C8, as stated: the k handed to fill_gap is silence_sec / window_sec / 2
\* rounded to the nearest integer.
C8_Original ==
    (pc \in AfterFill /\ args.silence_sec > 0 /\ args.window_sec > 0) =>
        gap_k = PyRound(args.silence_sec, 2 * args.window_sec)

\* C8, amended: the k handed to fill_gap is silence_sec / window_sec / 2 with
\* its fraction dropped, the largest k with 2k * window_sec <= silence_sec, and
\* the gaps bridged are those of at most 2k windows.
C8_TruncatedK ==
    (pc \in AfterFill /\ args.silence_sec > 0 /\ args.window_sec > 0) =>
        /\ 2 * gap_k * args.window_sec <= args.silence_sec
        /\ args.silence_sec < 2 * (gap_k + 1) * args.window_sec
        /\ Len(db_agg_bin) = Len(db_agg)
        /\ \A i \in 1..Len(db_agg) :
              LET raised(j) == db_agg[j] * args.agg_thresh.den
                                  >= args.agg_thresh.num * window_length
              IN  db_agg_bin[i] <=>
                     \/ raised(i)
                     \/ \E a \in 1..(i - 1) : \E b \in (i + 1)..Len(db_agg) :
                           raised(a) /\ raised(b) /\ b - a - 1 <= 2 * gap_k

\* a gap of 2k windows bridged where rounding would have given k + 1
C8_Witness ==
    /\ pc = "filled"
    /\ args.silence_sec = 3
    /\ args.window_sec = 1
    /\ gap_k = 1
    /\ \E i \in 1..(Len(db_agg) - 3) :
          /\ db_agg[i] > 0 /\ db_agg[i + 1] = 0 /\ db_agg[i + 2] = 0 /\ db_agg[i + 3] > 0
          /\ db_agg_bin[i + 1] /\ db_agg_bin[i + 2]

\* ---- C9
\* C9: a negative k handed to fill_gap, a window_length <= 0 computed in detect
\* and an empty loudness trace handed to detect each end in an error and never
\* in a returned value.
C9_MalformedRaises ==
    /\ (pc \in {"fg_once", "fg_twice", "fg_error"} /\ kk < 0) =>
          pc = "fg_error" /\ once.err
    /\ (pc \in InDetect \ {"start"} /\ window_length <= 0) =>
          /\ pc \in {"binarized", "error"}
          /\ ~ENABLED Next => pc = "error"
    /\ (pc \in InDetect /\ audio.db = <<>>) =>
          /\ pc \notin AfterClassify
          /\ ~ENABLED Next => pc = "error"

\* the empty trace with k = 0, ended in an error
C9_Witness ==
    /\ pc = "error"
    /\ audio.db = <<>>
    /\ window_length > 0
    /\ GapK(args) = 0

\* ---- C10
\* C10: fill_gap keeps every true position of the mask and leaves false every
\* position before the mask's first true or after its last true.
C10_OnlyAddsInsideSpan ==
    (pc \in FillReturned /\ mask # <<>> /\ kk >= 0) =>
        /\ Len(once.val) = Len(mask)
        /\ \A i \in 1..Len(mask) :
              /\ mask[i] => once.val[i]
              /\ (\A j \in 1..i : ~mask[j]) => ~once.val[i]
              /\ (\A j \in i..Len(mask) : ~mask[j]) => ~once.val[i]

\* an isolated true kept, a gap filled, the false runs at both ends left alone
C10_Witness ==
    /\ pc = "fg_once"
    /\ kk = 2
    /\ mask = <<FALSE, TRUE, FALSE, FALSE, TRUE, FALSE, FALSE>>
    /\ once.val = <<FALSE, TRUE, TRUE, TRUE, TRUE, FALSE, FALSE>>

====
